---- MODULE Spec2Model ----
(***************************************************************************)
(* Model of research/object_detection/builders/dataset_builder.py:         *)
(* make_initializable_iterator, read_dataset and build, together with the  *)
(* element-level behaviour of the tf.data pipeline that build assembles    *)
(* (filename shuffle, repeat, parallel interleave, record shuffle, shard,  *)
(* map, batch_and_drop_remainder, prefetch).                               *)
(***************************************************************************)
EXTENDS Integers, Sequences, FiniteSets, TLC

\* ---------------------------------------------------------------- bounds
MaxFiles == 3
RecsPerFile == 2
MaxEpochs == 2
MaxBlock == 2
MaxSample == 2
MaxBatch == 2
MaxBuf == 2
MaxPull == 6
MaxIters == 2

\* Python's None where an integer is expected (`config.num_epochs or None`,
\* `batch_size=None`).
None == -1

VARIABLES
  input_reader_config,  \* the proto handed to build
  batch_size,           \* build's batch_size argument
  transform_input_data_fn, \* TRUE when a transform function is supplied
  nfiles,               \* how many files the glob of input_path matches
  result,               \* "none" | "dataset" | "ValueError"
  message,              \* the ValueError text
  calls,                \* library calls made by build, in call order
  warnings,             \* tf.logging.warning calls
  dataset,              \* parameters of the pipeline build returned
  collection,           \* the graph's TABLE_INITIALIZERS collection
  iterators,            \* iterators make_initializable_iterator returned
  it_state,             \* "none" | "running" | "eod" | "error"
  fnLeft,               \* filenames of the current epoch not yet emitted
  epoch,                \* epochs of the filename dataset started
  fnLog,                \* filenames the repeat stage has emitted
  slots,                \* the interleave's cycle: per slot <<file, next>>
  cur,                  \* the slot the deterministic interleave reads next
  blk,                  \* records read from slot cur in the current block
  shufBuf,              \* the record shuffle buffer
  stream,               \* records read_dataset's dataset has emitted
  mapped,               \* elements the map stage has emitted
  batchBuf,             \* elements waiting for a full batch
  out                   \* what the pipeline has emitted

vars == <<input_reader_config, batch_size, transform_input_data_fn, nfiles,
          result, message, calls, warnings, dataset, collection, iterators,
          it_state, fnLeft, epoch, fnLog, slots, cur, blk, shufBuf, stream,
          mapped, batchBuf, out>>

buildVars == <<input_reader_config, batch_size, transform_input_data_fn,
               nfiles, result, message, calls, warnings, dataset>>
iterVars == <<it_state, fnLeft, epoch, fnLog, slots, cur, blk, shufBuf,
              stream, mapped, batchBuf, out>>

\* ------------------------------------------------------------- helpers
Min(a, b) == IF a < b THEN a ELSE b

RemoveAt(s, i) == [j \in 1..(Len(s) - 1) |-> IF j < i THEN s[j] ELSE s[j + 1]]

Count(s, x) == Cardinality({i \in 1..Len(s) : s[i] = x})

\* tf.gfile.Glob: the files the patterns match, in the file system's order.
Glob(input_files) ==
  IF input_files = <<>> THEN <<>> ELSE [i \in 1..nfiles |-> i]

\* Python truthiness of an integer-or-None.
Truthy(x) == x # None /\ x # 0

NoFile == <<0, 0>>

NoDataset ==
  [filenames |-> <<>>, fn_shuffle |-> FALSE, fn_buf |-> 0,
   repeat_count |-> 0, cycle_length |-> 0, block_length |-> 0,
   sloppy |-> FALSE, rec_shuffle |-> FALSE, rec_buf |-> 0,
   shard |-> 0, transform |-> FALSE, num_parallel_calls |-> 0,
   batch |-> 0, prefetch |-> 0]

\* ------------------------------------------------------- read_dataset
\* Fault: the reader count is not reduced to the number of files.
unclamped_num_readers(num_readers, nfilenames) == num_readers

\* Lines 64-68: the reader count, reduced to the number of matched files.
clamped_num_readers(num_readers, nfilenames) ==
  IF num_readers > nfilenames THEN nfilenames ELSE num_readers

\* Lines 65-68 and 74-76: the warnings read_dataset logs.
read_dataset_warnings(filenames, config) ==
  (IF config.num_readers > Len(filenames)
     THEN <<"num_readers has been reduced">> ELSE <<>>)
  \o (IF ~config.shuffle
         /\ clamped_num_readers(config.num_readers, Len(filenames)) > 1
        THEN <<"shuffle is false but still slightly shuffled">> ELSE <<>>)

\* Fault: num_epochs is passed to repeat as it is, so 0 repeats zero times.
repeat_count_passed_through(num_epochs) == num_epochs

\* Line 77: `config.num_epochs or None`.
repeat_count(num_epochs) == IF num_epochs # 0 THEN num_epochs ELSE None

\* Fault: the interleaved read is sloppy whatever config.shuffle says.
interleave_always_sloppy(config) == TRUE

\* Line 84: sloppy=config.shuffle.
interleave_sloppy(config) == config.shuffle

\* Lines 71 and 85: both shuffle stages hang on config.shuffle.
shuffles_filenames(config) == config.shuffle
shuffles_records(config) == config.shuffle

\* The library calls of read_dataset, in the order the code makes them.
read_dataset_calls(config) ==
  <<"tf.gfile.Glob", "from_tensor_slices">>
  \o (IF shuffles_filenames(config) THEN <<"filename_dataset.shuffle">> ELSE <<>>)
  \o <<"filename_dataset.repeat", "parallel_interleave">>
  \o (IF shuffles_records(config) THEN <<"records_dataset.shuffle">> ELSE <<>>)

\* read_dataset: the records dataset it returns (as the parameters of its
\* stages), with the calls and warnings it made on the way.
read_dataset(input_files, config) ==
  LET filenames == Glob(input_files)
      num_readers == clamped_num_readers(config.num_readers, Len(filenames))
  IN [calls |-> read_dataset_calls(config),
      warnings |-> read_dataset_warnings(filenames, config),
      ds |-> [NoDataset EXCEPT
                !.filenames = filenames,
                !.fn_shuffle = shuffles_filenames(config),
                !.fn_buf = IF shuffles_filenames(config)
                             THEN config.filenames_shuffle_buffer_size ELSE 0,
                !.repeat_count = repeat_count(config.num_epochs),
                !.cycle_length = num_readers,
                !.block_length = config.read_block_length,
                !.sloppy = interleave_sloppy(config),
                !.rec_shuffle = shuffles_records(config),
                !.rec_buf = IF shuffles_records(config)
                              THEN config.shuffle_buffer_size ELSE 0]]

\* -------------------------------------------------------------- build
\* Fault: the oneof is not looked at.
build_raises_any_oneof(config) ==
  IF ~config.is_input_reader
    THEN "input_reader_config not of type input_reader_pb2.InputReader."
  ELSE IF config.input_path = <<>>
    THEN "At least one input path must be specified in input_reader_config."
  ELSE ""

\* Fault: an empty input_path is not rejected.
build_raises_no_path_check(config) ==
  IF ~config.is_input_reader
    THEN "input_reader_config not of type input_reader_pb2.InputReader."
  ELSE IF config.input_reader = "tf_record_input_reader"
    THEN ""
  ELSE "Unsupported input_reader_config."

\* Lines 110-118 and 165: the ValueError build raises (the empty string when none).
build_raises(config) ==
  IF ~config.is_input_reader
    THEN "input_reader_config not of type input_reader_pb2.InputReader."
  ELSE IF config.input_reader = "tf_record_input_reader"
    THEN IF config.input_path = <<>>
           THEN "At least one input path must be specified in input_reader_config."
           ELSE ""
  ELSE "Unsupported input_reader_config."

\* Fault: the sampling test is >= 1 instead of > 1.
sample_shards_from_one(sample_1_of_n_examples) ==
  IF sample_1_of_n_examples >= 1 THEN sample_1_of_n_examples ELSE 0

\* Lines 145-146: the shard stage's shard count, 0 when no stage is applied.
sample_shards(sample_1_of_n_examples) ==
  IF sample_1_of_n_examples > 1 THEN sample_1_of_n_examples ELSE 0

\* Fault: the batch stage is left out.
batch_stage_skipped(bs) == 0

\* Lines 158-160: the batch stage's size, 0 when no stage is applied.
batch_stage(bs) == IF Truthy(bs) THEN bs ELSE 0

\* Lines 150-153.
num_parallel_calls(bs, config) ==
  IF Truthy(bs) THEN bs * config.num_parallel_batches
                ELSE config.num_parallel_map_calls

\* Fault: the shard stage is applied before the files are read.
build_calls_shard_first(config, bs) ==
  <<"TfExampleDecoder">>
  \o (IF config.sample_1_of_n_examples > 1 THEN <<"dataset.shard">> ELSE <<>>)
  \o read_dataset(config.input_path, config).calls
  \o <<"dataset.map">>
  \o (IF Truthy(bs) THEN <<"batch_and_drop_remainder">> ELSE <<>>)
  \o <<"dataset.prefetch">>

\* The library calls of build after validation, in the order the code makes
\* them (lines 125-162).
build_calls(config, bs) ==
  <<"TfExampleDecoder">>
  \o read_dataset(config.input_path, config).calls
  \o (IF sample_shards(config.sample_1_of_n_examples) > 0
        THEN <<"dataset.shard">> ELSE <<>>)
  \o <<"dataset.map">>
  \o (IF batch_stage(bs) > 0 THEN <<"batch_and_drop_remainder">> ELSE <<>>)
  \o <<"dataset.prefetch">>

\* Lines 141-163: the dataset build returns.
build_dataset(config, bs, transform) ==
  [read_dataset(config.input_path, config).ds EXCEPT
     !.shard = sample_shards(config.sample_1_of_n_examples),
     !.transform = transform,
     !.num_parallel_calls = num_parallel_calls(bs, config),
     !.batch = batch_stage(bs),
     !.prefetch = config.num_prefetch_batches]

build ==
  /\ result = "none"
  /\ LET err == build_raises(input_reader_config) IN
       IF err # ""
         THEN /\ result' = "ValueError"
              /\ message' = err
              /\ UNCHANGED <<calls, warnings, dataset>>
         ELSE /\ result' = "dataset"
              /\ message' = ""
              /\ calls' = build_calls(input_reader_config, batch_size)
              /\ warnings' =
                   read_dataset(input_reader_config.input_path,
                                input_reader_config).warnings
              /\ dataset' = build_dataset(input_reader_config, batch_size,
                                          transform_input_data_fn)
  /\ UNCHANGED <<input_reader_config, batch_size, transform_input_data_fn,
                 nfiles, collection, iterators>>
  /\ UNCHANGED iterVars

\* ----------------------------------------- make_initializable_iterator
\* Fault: the initializer is not added to the collection.
make_initializable_iterator_unregistered ==
  /\ result = "dataset"
  /\ it_state = "none"
  /\ Len(iterators) < MaxIters
  /\ iterators' = Append(iterators, Len(iterators) + 1)
  /\ UNCHANGED collection
  /\ UNCHANGED buildVars
  /\ UNCHANGED iterVars

\* Lines 43-45: a fresh iterator, its initializer added to the collection.
make_initializable_iterator ==
  /\ result = "dataset"
  /\ it_state = "none"
  /\ Len(iterators) < MaxIters
  /\ LET iterator == Len(iterators) + 1 IN
       /\ collection' = Append(collection, iterator)
       /\ iterators' = Append(iterators, iterator)
  /\ UNCHANGED buildVars
  /\ UNCHANGED iterVars

\* ------------------------------------------------- the pipeline at run time
\* A raw record is <<file, index>>.  decoder.decode and the transform are
\* kept symbolic: an element carries the record it came from and the
\* operations applied to it, in order.
decode(value) == [rec |-> value, ops |-> <<"decode">>]

transform(tensors) == [tensors EXCEPT !.ops = Append(@, "transform")]

\* Fault: the transform is applied whether or not one was supplied.
process_fn_always_transforms(value, transform_fn) == transform(decode(value))

\* Lines 132-139: process_fn, a closure over transform_input_data_fn.
process_fn(value, transform_fn) ==
  LET processed_tensors == decode(value) IN
    IF transform_fn THEN transform(processed_tensors) ELSE processed_tensors

\* Dataset.shard(n, 0) keeps the elements whose 0-based position is a
\* multiple of n; no shard stage keeps all.
shard_keeps(position, n) == n = 0 \/ position % n = 0

\* Dataset.repeat(count): count = None repeats without end.
HasMoreFilenames ==
  \/ fnLeft # <<>>
  \/ /\ dataset.filenames # <<>>
     /\ \/ dataset.repeat_count = None
        \/ epoch < dataset.repeat_count

\* The filenames the next one is drawn from: the rest of this epoch, or a
\* fresh epoch.
FilenameSource == IF fnLeft # <<>> THEN fnLeft ELSE dataset.filenames

\* Dataset.shuffle(buffer_size) emits any element of its buffer, which holds
\* the first buffer_size elements not yet emitted; without a shuffle the
\* next element is the first.
FilenameWindow ==
  IF dataset.fn_shuffle
    THEN 1..Min(dataset.fn_buf, Len(FilenameSource))
    ELSE {1}

NextSlot(s) == (s % dataset.cycle_length) + 1

InterleaveDone ==
  /\ ~HasMoreFilenames
  /\ \A s \in 1..dataset.cycle_length : slots[s] = NoFile

\* One record leaves read_dataset's dataset and runs through shard, map and
\* batch (lines 145-160).
Emit(r) ==
  /\ stream' = Append(stream, r)
  /\ IF shard_keeps(Len(stream), dataset.shard)
       THEN LET e == process_fn(r, dataset.transform) IN
              /\ mapped' = Append(mapped, e)
              /\ IF dataset.batch = 0
                   THEN /\ out' = Append(out, [batched |-> FALSE, els |-> <<e>>])
                        /\ batchBuf' = batchBuf
                   ELSE IF Len(batchBuf) + 1 >= dataset.batch
                     THEN /\ out' = Append(out, [batched |-> TRUE,
                                                 els |-> Append(batchBuf, e)])
                          /\ batchBuf' = <<>>
                     ELSE /\ out' = out
                          /\ batchBuf' = Append(batchBuf, e)
       ELSE UNCHANGED <<mapped, batchBuf, out>>

\* The session runs the initializers of the collection: the iterators start.
\* parallel_interleave rejects a cycle_length below 1, otherwise the cycle
\* starts empty.  The stream followed from here on is the first iterator's.
initialize ==
  /\ result = "dataset"
  /\ it_state = "none"
  /\ iterators # <<>>
  /\ IF dataset.cycle_length < 1
       THEN /\ it_state' = "error"
            /\ UNCHANGED <<slots, cur>>
       ELSE /\ it_state' = "running"
            /\ slots' = [s \in 1..dataset.cycle_length |-> NoFile]
            /\ cur' = 1
  /\ UNCHANGED <<fnLeft, epoch, fnLog, blk, shufBuf, stream, mapped,
                 batchBuf, out, collection, iterators>>
  /\ UNCHANGED buildVars

\* An empty slot of the cycle takes the next filename and opens the file.
OpenFile ==
  /\ it_state = "running"
  /\ HasMoreFilenames
  /\ \E s \in 1..dataset.cycle_length :
       /\ slots[s] = NoFile
       /\ dataset.sloppy \/ s = cur
       /\ \E i \in FilenameWindow :
            /\ slots' = [slots EXCEPT ![s] = <<FilenameSource[i], 1>>]
            /\ fnLeft' = RemoveAt(FilenameSource, i)
            /\ fnLog' = Append(fnLog, FilenameSource[i])
  /\ epoch' = IF fnLeft = <<>> /\ dataset.repeat_count # None
                THEN epoch + 1 ELSE epoch
  /\ UNCHANGED <<it_state, cur, blk, shufBuf, stream, mapped, batchBuf, out,
                 collection, iterators>>
  /\ UNCHANGED buildVars

\* The interleave reads one record: from slot cur, block_length in a row
\* (deterministic), or from any open slot (sloppy).
ReadRecord ==
  /\ it_state = "running"
  /\ dataset.repeat_count = None => Len(stream) + Len(shufBuf) < MaxPull
  /\ \E s \in 1..dataset.cycle_length :
       /\ slots[s] # NoFile
       /\ dataset.sloppy \/ s = cur
       /\ LET r == slots[s]
              fileDone == r[2] >= RecsPerFile
          IN /\ slots' = [slots EXCEPT
                            ![s] = IF fileDone THEN NoFile ELSE <<r[1], r[2] + 1>>]
             /\ IF dataset.sloppy
                  THEN UNCHANGED <<cur, blk>>
                  ELSE IF fileDone \/ blk + 1 >= dataset.block_length
                    THEN cur' = NextSlot(cur) /\ blk' = 0
                    ELSE cur' = cur /\ blk' = blk + 1
             /\ IF ~dataset.rec_shuffle
                  THEN Emit(r) /\ UNCHANGED shufBuf
                  ELSE IF Len(shufBuf) < dataset.rec_buf
                    THEN /\ shufBuf' = Append(shufBuf, r)
                         /\ UNCHANGED <<stream, mapped, batchBuf, out>>
                    ELSE \E i \in 1..Len(shufBuf) :
                           /\ Emit(shufBuf[i])
                           /\ shufBuf' = Append(RemoveAt(shufBuf, i), r)
  /\ UNCHANGED <<it_state, fnLeft, epoch, fnLog, collection, iterators>>
  /\ UNCHANGED buildVars

\* The deterministic interleave passes over a slot that can no longer be
\* filled.
SkipSlot ==
  /\ it_state = "running"
  /\ ~dataset.sloppy
  /\ slots[cur] = NoFile
  /\ ~HasMoreFilenames
  /\ ~InterleaveDone
  /\ cur' = NextSlot(cur)
  /\ blk' = 0
  /\ UNCHANGED <<it_state, fnLeft, epoch, fnLog, slots, shufBuf, stream,
                 mapped, batchBuf, out, collection, iterators>>
  /\ UNCHANGED buildVars

\* The input has ended: the record shuffle buffer empties in any order.
Drain ==
  /\ it_state = "running"
  /\ InterleaveDone
  /\ shufBuf # <<>>
  /\ \E i \in 1..Len(shufBuf) :
       /\ Emit(shufBuf[i])
       /\ shufBuf' = RemoveAt(shufBuf, i)
  /\ UNCHANGED <<it_state, fnLeft, epoch, fnLog, slots, cur, blk,
                 collection, iterators>>
  /\ UNCHANGED buildVars

\* End of data: batch_and_drop_remainder drops an incomplete last batch.
EndOfData ==
  /\ it_state = "running"
  /\ InterleaveDone
  /\ shufBuf = <<>>
  /\ it_state' = "eod"
  /\ batchBuf' = <<>>
  /\ UNCHANGED <<fnLeft, epoch, fnLog, slots, cur, blk, shufBuf, stream,
                 mapped, out, collection, iterators>>
  /\ UNCHANGED buildVars

\* ------------------------------------------------------ specification
DefaultConfig ==
  [is_input_reader |-> TRUE, input_reader |-> "tf_record_input_reader",
   input_path |-> <<"records-?????-of-00002">>,
   num_readers |-> 1, shuffle |-> FALSE,
   filenames_shuffle_buffer_size |-> 1, shuffle_buffer_size |-> 1,
   num_epochs |-> 1, read_block_length |-> 1, sample_1_of_n_examples |-> 1,
   num_parallel_batches |-> 2, num_parallel_map_calls |-> 3,
   num_prefetch_batches |-> 2]

\* Configurations build rejects.
InvalidConfigs ==
  { [DefaultConfig EXCEPT !.is_input_reader = FALSE],
    [DefaultConfig EXCEPT !.input_reader = "external_input_reader"],
    [DefaultConfig EXCEPT !.input_reader = "unset"],
    [DefaultConfig EXCEPT !.input_path = <<>>],
    [DefaultConfig EXCEPT !.input_reader = "unset", !.input_path = <<>>] }

\* Configurations without shuffling that vary how the files are read.
ReaderConfigs ==
  { [DefaultConfig EXCEPT
       !.num_readers = nr, !.num_epochs = ne, !.read_block_length = bl] :
     nr \in 0..(MaxFiles + 1), ne \in 0..MaxEpochs, bl \in 1..MaxBlock }

\* Configurations without shuffling that vary what happens to the records.
SamplingConfigs ==
  { [DefaultConfig EXCEPT
       !.num_readers = nr, !.num_epochs = ne,
       !.sample_1_of_n_examples = sn] :
     nr \in 1..2, ne \in 0..MaxEpochs, sn \in 0..MaxSample }

\* Configurations with shuffling.
ShuffledConfigs ==
  { [DefaultConfig EXCEPT
       !.shuffle = TRUE, !.num_readers = 2,
       !.filenames_shuffle_buffer_size = fb, !.shuffle_buffer_size = 2,
       !.num_epochs = ne, !.sample_1_of_n_examples = sn] :
     fb \in 1..MaxBuf, ne \in 0..MaxEpochs, sn \in {0, 2} }

Init ==
  /\ \/ /\ input_reader_config \in InvalidConfigs
        /\ batch_size \in {None, 1}
        /\ transform_input_data_fn \in BOOLEAN
        /\ nfiles \in 0..1
     \/ /\ input_reader_config \in ReaderConfigs
        /\ batch_size = None
        /\ transform_input_data_fn = FALSE
        /\ nfiles \in 0..MaxFiles
     \/ /\ input_reader_config \in SamplingConfigs
        /\ batch_size \in {None} \cup 0..MaxBatch
        /\ transform_input_data_fn \in BOOLEAN
        /\ nfiles \in 1..MaxFiles
     \/ /\ input_reader_config \in ShuffledConfigs
        /\ batch_size = 2
        /\ transform_input_data_fn = TRUE
        /\ nfiles \in 1..2
        \* shuffled streams short enough to follow in every order
        /\ nfiles * input_reader_config.num_epochs * RecsPerFile <= MaxPull
  /\ result = "none"
  /\ message = ""
  /\ calls = <<>>
  /\ warnings = <<>>
  /\ dataset = NoDataset
  /\ collection = <<0>>
  /\ iterators = <<>>
  /\ it_state = "none"
  /\ fnLeft = <<>>
  /\ epoch = 0
  /\ fnLog = <<>>
  /\ slots = <<>>
  /\ cur = 0
  /\ blk = 0
  /\ shufBuf = <<>>
  /\ stream = <<>>
  /\ mapped = <<>>
  /\ batchBuf = <<>>
  /\ out = <<>>

Next ==
  \/ build
  \/ make_initializable_iterator
  \/ initialize
  \/ OpenFile
  \/ ReadRecord
  \/ SkipSlot
  \/ Drain
  \/ EndOfData

Spec == Init /\ [][Next]_vars


\* --------------------------------------------------------- properties
Built == result = "dataset"

\* Position of the first occurrence of a call in the call log, 0 if absent.
Pos(name) ==
  IF \E i \in 1..Len(calls) : calls[i] = name
    THEN CHOOSE i \in 1..Len(calls) :
           calls[i] = name /\ \A j \in 1..(i - 1) : calls[j] # name
    ELSE 0

Called(name) == Pos(name) > 0

\* C1: build raises ValueError and returns no dataset for every invalid
\* proto (not an InputReader; oneof other than tf_record_input_reader, unset
\* included, with the message 'Unsupported input_reader_config.'), and it
\* returns a dataset only for an InputReader whose oneof is
\* tf_record_input_reader and whose input_path is non-empty.
C1_InvalidProtoRejected ==
  result # "none" =>
    LET c == input_reader_config
        valid == /\ c.is_input_reader
                 /\ c.input_reader = "tf_record_input_reader"
                 /\ c.input_path # <<>>
    IN /\ result = "dataset" <=> valid
       /\ result = "ValueError" <=> ~valid
       /\ result = "ValueError" => dataset = NoDataset /\ message # ""
       /\ ~c.is_input_reader =>
            message = "input_reader_config not of type input_reader_pb2.InputReader."
       /\ c.is_input_reader /\ c.input_reader # "tf_record_input_reader" =>
            message = "Unsupported input_reader_config."

C1_Witness ==
  /\ result = "ValueError"
  /\ input_reader_config.is_input_reader
  /\ input_reader_config.input_reader = "unset"
  /\ input_reader_config.input_path # <<>>
  /\ message = "Unsupported input_reader_config."

\* C2: with a tf_record_input_reader whose input_path is empty, build raises
\* 'At least one input path must be specified' before anything else: no
\* decoder, no read_dataset (no glob), no pipeline stage, no warning.
C2_EmptyPathRaisesFirst ==
  ( /\ result # "none"
    /\ input_reader_config.is_input_reader
    /\ input_reader_config.input_reader = "tf_record_input_reader"
    /\ input_reader_config.input_path = <<>> ) =>
      /\ result = "ValueError"
      /\ message = "At least one input path must be specified in input_reader_config."
      /\ calls = <<>>
      /\ warnings = <<>>
      /\ dataset = NoDataset
      /\ it_state = "none"

C2_Witness ==
  /\ result = "ValueError"
  /\ input_reader_config.input_reader = "tf_record_input_reader"
  /\ input_reader_config.input_path = <<>>
  /\ calls = <<>>

\* The stage order of the specification: glob, shard, shuffle,
\* interleave-read, map-decode, batch, prefetch (0: not one of these stages).
ClaimedRank(name) ==
  CASE name = "tf.gfile.Glob" -> 1
    [] name = "dataset.shard" -> 2
    [] name = "filename_dataset.shuffle" -> 3
    [] name = "records_dataset.shuffle" -> 3
    [] name = "parallel_interleave" -> 4
    [] name = "dataset.map" -> 5
    [] name = "batch_and_drop_remainder" -> 6
    [] name = "dataset.prefetch" -> 7
    [] OTHER -> 0

\* The stage order of the code: glob, filename shuffle, repeat,
\* interleave-read, record shuffle, shard, map-decode, batch, prefetch.
ActualRank(name) ==
  CASE name = "tf.gfile.Glob" -> 1
    [] name = "from_tensor_slices" -> 2
    [] name = "filename_dataset.shuffle" -> 3
    [] name = "filename_dataset.repeat" -> 4
    [] name = "parallel_interleave" -> 5
    [] name = "records_dataset.shuffle" -> 6
    [] name = "dataset.shard" -> 7
    [] name = "dataset.map" -> 8
    [] name = "batch_and_drop_remainder" -> 9
    [] name = "dataset.prefetch" -> 10
    [] OTHER -> 0

\* C3 as stated: in every successful build the stages present are applied in
\* the order glob, shard, shuffle, interleave-read, map-decode, batch,
\* prefetch; shard before any shuffle and before the interleaved read;
\* prefetch last.
C3_ClaimedOrder ==
  Built =>
    /\ \A i, j \in 1..Len(calls) :
         ( /\ ClaimedRank(calls[i]) > 0
           /\ ClaimedRank(calls[j]) > 0
           /\ ClaimedRank(calls[i]) < ClaimedRank(calls[j]) ) => i < j
    /\ calls[Len(calls)] = "dataset.prefetch"

\* C3 amended: in every successful build the stages present are applied in
\* the order glob, filename shuffle, repeat, interleave-read, record shuffle,
\* shard, map-decode, batch, prefetch: the shard stage comes after the
\* interleaved read and after both shuffles, and prefetch is last.
C3_ActualOrder ==
  Built =>
    /\ \A i, j \in 1..Len(calls) :
         ( /\ ActualRank(calls[i]) > 0
           /\ ActualRank(calls[j]) > 0
           /\ i < j ) => ActualRank(calls[i]) < ActualRank(calls[j])
    /\ Called("tf.gfile.Glob") /\ Called("parallel_interleave")
    /\ Called("dataset.map")
    /\ Called("dataset.shard") =>
         /\ Pos("dataset.shard") > Pos("parallel_interleave")
         /\ Pos("dataset.shard") > Pos("records_dataset.shuffle")
         /\ Pos("dataset.shard") > Pos("filename_dataset.shuffle")
    /\ calls[Len(calls)] = "dataset.prefetch"

C3_Witness ==
  /\ Built
  /\ Called("dataset.shard")
  /\ Called("filename_dataset.shuffle")
  /\ Called("records_dataset.shuffle")
  /\ Called("batch_and_drop_remainder")

\* C4: the cycle_length handed to the interleaved read is
\* min(num_readers, number of matched files), so never above the file count;
\* the reduction and its warning happen only when num_readers is strictly
\* greater; with no matched file the reader count is 0.
C4_ReadersClamped ==
  Built =>
    /\ dataset.cycle_length = Min(input_reader_config.num_readers, nfiles)
    /\ dataset.cycle_length <= nfiles
    /\ Len(dataset.filenames) = nfiles
    /\ (\E i \in 1..Len(warnings) : warnings[i] = "num_readers has been reduced")
         <=> input_reader_config.num_readers > nfiles
    /\ input_reader_config.num_readers <= nfiles =>
         dataset.cycle_length = input_reader_config.num_readers
    /\ nfiles = 0 => dataset.cycle_length = 0
    /\ it_state = "running" => Len(slots) = dataset.cycle_length

C4_Witness ==
  /\ Built
  /\ nfiles = 2
  /\ input_reader_config.num_readers > nfiles
  /\ dataset.cycle_length = 2
  /\ it_state = "running"
  /\ \A s \in 1..2 : slots[s] # NoFile

\* C5: every element the map stage emits was decoded exactly once, first;
\* the transform was applied to the decoder's output exactly once when
\* transform_input_data_fn is given and never otherwise, in which case the
\* element is exactly the decoder's output.
C5_DecodeThenTransform ==
  Built =>
    /\ dataset.transform = transform_input_data_fn
    /\ \A i \in 1..Len(mapped) :
         LET e == mapped[i] IN
           /\ Len(e.ops) >= 1 /\ e.ops[1] = "decode"
           /\ Count(e.ops, "decode") = 1
           /\ Count(e.ops, "transform") =
                (IF transform_input_data_fn THEN 1 ELSE 0)
           /\ transform_input_data_fn => e.ops = <<"decode", "transform">>
           /\ ~transform_input_data_fn => e = decode(e.rec)
    /\ Len(mapped) =
         Cardinality({q \in 0..(Len(stream) - 1) : shard_keeps(q, dataset.shard)})

C5_Witness ==
  /\ Built
  /\ transform_input_data_fn
  /\ Len(mapped) >= 2
  /\ mapped[2].ops = <<"decode", "transform">>

\* C6: with batch_size None or 0 there is no batch stage and the pipeline
\* emits the single decoded elements; with batch_size b > 0 every emitted
\* batch holds exactly b elements in stream order and an incomplete last
\* group is dropped, so k elements yield floor(k / b) batches.
C6_FixedSizeBatches ==
  Built =>
    /\ ~Truthy(batch_size) =>
         /\ dataset.batch = 0
         /\ ~Called("batch_and_drop_remainder")
         /\ Len(out) = Len(mapped)
         /\ \A i \in 1..Len(out) :
              ~out[i].batched /\ out[i].els = <<mapped[i]>>
    /\ Truthy(batch_size) =>
         /\ dataset.batch = batch_size
         /\ Called("batch_and_drop_remainder")
         /\ Len(out) = Len(mapped) \div batch_size
         /\ \A i \in 1..Len(out) :
              /\ out[i].batched
              /\ Len(out[i].els) = batch_size
              /\ out[i].els = SubSeq(mapped, (i - 1) * batch_size + 1,
                                     i * batch_size)
         /\ it_state = "eod" => batchBuf = <<>>

C6_Witness ==
  /\ Built
  /\ it_state = "eod"
  /\ batch_size = 2
  /\ Len(mapped) = 3
  /\ Len(out) = 1

\* C7: every call of make_initializable_iterator returns a fresh iterator
\* and adds that iterator's initializer to TABLE_INITIALIZERS exactly once;
\* after n calls the collection has gained exactly n entries, one per
\* returned iterator, and what it held before is still there, unchanged.
C7_InitializerAddedOnce ==
  /\ Len(collection) = 1 + Len(iterators)
  /\ collection[1] = 0
  /\ \A i \in 1..Len(iterators) :
       /\ collection[1 + i] = iterators[i]
       /\ Count(collection, iterators[i]) = 1
       /\ Count(iterators, iterators[i]) = 1

C7_Witness ==
  /\ Len(iterators) = 2
  /\ collection = <<0, 1, 2>>

\* The record at 1-based position i of the stream a deterministic
\* interleave emits: the repeated file list is taken cycle_length files at a
\* time, and the files of a group are read block_length records in turn.
ExpectedRecord(i) ==
  LET c == dataset.cycle_length
      b == dataset.block_length
      nf == Len(dataset.filenames)
      g == (i - 1) \div (c * RecsPerFile)
      o == (i - 1) % (c * RecsPerFile)
      total == nf * dataset.repeat_count
      m == IF dataset.repeat_count = None THEN c ELSE Min(c, total - g * c)
      k == o \div (m * b)
      o2 == o % (m * b)
      bk == Min(b, RecsPerFile - k * b)
      sl == o2 \div bk
      t == o2 % bk
      fileIndex == g * c + sl
  IN <<dataset.filenames[(fileIndex % nf) + 1], k * b + t + 1>>

\* The record at position i when the files are read one after the other.
FileOrderRecord(i) ==
  <<dataset.filenames[(((i - 1) \div RecsPerFile) % Len(dataset.filenames)) + 1],
    ((i - 1) % RecsPerFile) + 1>>

\* C8: config.shuffle alone controls shuffling.  True: the filenames are
\* shuffled (buffer filenames_shuffle_buffer_size) before the repeat, the
\* interleaved read is sloppy, the records are shuffled (buffer
\* shuffle_buffer_size) after the read.  False: no shuffle stage, the read is
\* not sloppy, and the record order is a function of the file list,
\* num_readers and read_block_length: a fixed interleaving, which is the file
\* order when the reader count is at most 1.
C8_ShuffleFlag ==
  Built =>
    /\ input_reader_config.shuffle =>
         /\ dataset.fn_shuffle /\ dataset.rec_shuffle /\ dataset.sloppy
         /\ dataset.fn_buf = input_reader_config.filenames_shuffle_buffer_size
         /\ dataset.rec_buf = input_reader_config.shuffle_buffer_size
         /\ Called("filename_dataset.shuffle")
         /\ Pos("filename_dataset.shuffle") < Pos("filename_dataset.repeat")
         /\ Pos("records_dataset.shuffle") > Pos("parallel_interleave")
    /\ ~input_reader_config.shuffle =>
         /\ ~dataset.fn_shuffle /\ ~dataset.rec_shuffle /\ ~dataset.sloppy
         /\ ~Called("filename_dataset.shuffle")
         /\ ~Called("records_dataset.shuffle")
         /\ shufBuf = <<>>
         /\ \A i \in 1..Len(stream) : stream[i] = ExpectedRecord(i)
         /\ dataset.cycle_length <= 1 =>
              \A i \in 1..Len(stream) : stream[i] = FileOrderRecord(i)

C8_Witness ==
  /\ Built
  /\ ~input_reader_config.shuffle
  /\ dataset.cycle_length = 2
  /\ nfiles = 3
  /\ it_state = "eod"
  /\ Len(stream) = 6
  /\ stream[2] = <<2, 1>>
  /\ stream[6] = <<3, 2>>

\* Every epoch of the filename log holds each file at most once.
EpochsArePermutations ==
  \A i, j \in 1..Len(fnLog) :
    (i < j /\ (i - 1) \div nfiles = (j - 1) \div nfiles) => fnLog[i] # fnLog[j]

\* What C9 says of every state: the repeat gets num_epochs, or None
\* (unbounded, not skipped) for 0; it sits after the filename shuffle and
\* before the interleaved read; each epoch is one pass over the files; with
\* n > 0 a stream that ended has repeated the filenames exactly n times and
\* read every file exactly n times; with num_epochs = 0 and at least one
\* file the stream never ends.
C9_RepeatSafety ==
  Built =>
    LET n == input_reader_config.num_epochs IN
      /\ dataset.repeat_count = (IF n = 0 THEN None ELSE n)
      /\ Called("filename_dataset.repeat")
      /\ Pos("filename_dataset.repeat") > Pos("filename_dataset.shuffle")
      /\ Pos("filename_dataset.repeat") < Pos("parallel_interleave")
      /\ EpochsArePermutations
      /\ n > 0 => Len(fnLog) <= n * nfiles
      /\ (n > 0 /\ it_state = "eod") =>
           /\ Len(fnLog) = n * nfiles
           /\ \A f \in 1..nfiles : Count(fnLog, f) = n
           /\ Len(stream) = n * nfiles * RecsPerFile
      /\ (n = 0 /\ nfiles > 0) => it_state # "eod"

\* One step of a started stream.
StreamStep == OpenFile \/ ReadRecord \/ SkipSlot \/ Drain \/ EndOfData

\* How far the deterministic interleave is from a slot holding a file.
SkipDistance ==
  IF dataset.sloppy \/ it_state # "running"
       \/ \A s \in 1..dataset.cycle_length : slots[s] = NoFile
    THEN 0
    ELSE CHOOSE d \in 0..(dataset.cycle_length - 1) :
           /\ slots[((cur - 1 + d) % dataset.cycle_length) + 1] # NoFile
           /\ \A e \in 0..(d - 1) :
                slots[((cur - 1 + e) % dataset.cycle_length) + 1] = NoFile

\* What a stream over n > 0 epochs still has to do: files to open, records to
\* read, records to emit, the end to signal, slots to pass over.
Remaining ==
  LET n == input_reader_config.num_epochs
      total == n * nfiles * RecsPerFile
  IN ( (n * nfiles - Len(fnLog))
       + (total - (Len(stream) + Len(shufBuf)))
       + (total - Len(stream))
       + (IF it_state = "running" THEN 1 ELSE 0) ) * (dataset.cycle_length + 1)
     + SkipDistance

C9_UnboundedReached ==
  /\ Built
  /\ input_reader_config.shuffle
  /\ input_reader_config.num_epochs = 0
  /\ nfiles = 2
  /\ Len(fnLog) = 4
  /\ fnLog[1] = 2
  /\ Len(stream) + Len(shufBuf) > nfiles * RecsPerFile

\* C10: with sample_1_of_n_examples = n > 1 the stream read_dataset returns
\* (read, repeated, shuffled) is sharded (n, 0) before the map, so exactly
\* its records at positions 0, n, 2n, ... are decoded; with 0 or 1 there is
\* no shard stage and every record is decoded.
C10_SampleOneOfN ==
  Built =>
    LET n == input_reader_config.sample_1_of_n_examples
        k == IF n > 1 THEN n ELSE 1
    IN /\ dataset.shard = (IF n > 1 THEN n ELSE 0)
       /\ Called("dataset.shard") <=> n > 1
       /\ n > 1 =>
            /\ Pos("dataset.shard") > Pos("parallel_interleave")
            /\ Pos("dataset.shard") > Pos("records_dataset.shuffle")
            /\ Pos("dataset.shard") < Pos("dataset.map")
       /\ Len(mapped) = (Len(stream) + k - 1) \div k
       /\ \A i \in 1..Len(mapped) : mapped[i].rec = stream[(i - 1) * k + 1]

C10_Witness ==
  /\ Built
  /\ input_reader_config.shuffle
  /\ input_reader_config.sample_1_of_n_examples = 2
  /\ Len(stream) = 4
  /\ Len(mapped) = 2
  /\ mapped[2].rec = stream[3]
  /\ stream[1] # <<1, 1>>
====
